---- MODULE Spec2Model ----
(***************************************************************************)
(* A model of the retrieval-augmented chat notebook                        *)
(* src/sagemaker/sagemaker-llm-rag.ipynb:                                  *)
(*   - the widget chat loop ChatUX (start_chat, chat),                     *)
(*   - the document loader cell,                                           *)
(*   - the content handler SMLLMContentHandler (transform_input,           *)
(*     transform_output).                                                  *)
(* Python strings are sequences of one-character strings, so that len(),   *)
(* ==, split(), strip() and float() are computed as Python computes them.  *)
(***************************************************************************)
EXTENDS Integers, Sequences, FiniteSets, TLC

\* ------------------------------------------------------------------ bounds
\* Chat turns (calls of self.qa) explored in one behaviour.
MaxTurns == 2
\* Front-end messages (value updates, clicks) waiting for the kernel.
MaxInbox == 2

\* ----------------------------------------------------------------- strings
EmptyStr == <<>>
S_q == <<"q">>
S_Q == <<"Q">>
S_quit == <<"q", "u", "i", "t">>
S_QUIT == <<"Q", "U", "I", "T">>
S_hi == <<"h", "i">>

\* What the user may type into the text box (a fresh box holds the empty
\* string).
Texts == {S_q, S_Q, S_quit, S_QUIT, S_hi}

\* The literal of the except branch of ChatUX.chat.
NoAnswer == <<"N", "o", " ", "a", "n", "s", "w", "e", "r">>

\* Answers the chain may return in response['answer'].
Answers == {<<"a", "1">>, <<"a", "2">>}

\* str.lower() on the characters of the model's alphabet.
LowerChar(c) ==
    CASE c = "Q" -> "q"
      [] c = "U" -> "u"
      [] c = "I" -> "i"
      [] c = "T" -> "t"
      [] c = "N" -> "n"
      [] c = "A" -> "a"
      [] OTHER -> c

Lower(s) == [i \in 1..Len(s) |-> LowerChar(s[i])]

\* ------------------------------------------------------------------- state
VARIABLES
    started,    \* start_chat has run
    name,       \* self.name: None or the current Text widget
    b,          \* self.b: None or the current Button widget
    widgets,    \* every (Text, Button) pair created so far, by creation order
    inbox,      \* front-end messages not yet handled by the kernel, in order
    memory,     \* the chain's ConversationBufferMemory: (question, answer) pairs
    goodbye,    \* the farewell of the quit branch has been printed
    nQa,        \* number of calls of self.qa so far
    lastTurn    \* the last turn that entered Processing

chatVars == <<started, name, b, widgets, inbox, memory, goodbye, nQa, lastTurn>>

VARIABLES
    files,      \* glob.glob("data/*.txt"): the files of the data directory
    fi,         \* position of the loader's for loop in files
    docs,       \* the list docs
    loadErr,    \* the exception that ended the loader cell, or "none"
    parsed      \* the cell's variables movie_id, title, ..., overview

loaderVars == <<files, fi, docs, loadErr, parsed>>

VARIABLES
    req,        \* what transform_input returned last (empty before a call)
    resp        \* how transform_output ended last (empty before a call)

llmVars == <<req, resp>>

VARIABLES
    pc,         \* where create_opensearch_serverless_collection stands
    policies,   \* the security and access policies created so far, by type
    collection, \* the response of create_collection, or NoCollection
    svcStatus,  \* the status of the collection at the service
    status,     \* the local variable status: what the last poll returned
    polls,      \* number of list_collections calls so far
    environ,    \* os.environ, as far as the function reads it
    ret         \* what the function returned, or NoReturn

aossVars == <<pc, policies, collection, svcStatus, status, polls, environ, ret>>

vars == <<chatVars, loaderVars, llmVars, aossVars>>

None == 0

\* A text box created holding the text just submitted.
NewControlCarriesText ==
    [value |-> IF name = None THEN EmptyStr ELSE widgets[name].value,
     tdisabled |-> FALSE, bdisabled |-> FALSE]

\* ipw.Text(...) and ipw.Button(...): empty value, enabled.
NewControl == [value |-> EmptyStr, tdisabled |-> FALSE, bdisabled |-> FALSE]

NoTurn == [q |-> EmptyStr, result |-> EmptyStr, raised |-> FALSE,
           trace |-> <<>>, ctl |-> None, histLen |-> 0]

\* ChatUX.__init__
InitChat ==
    /\ started = FALSE
    /\ name = None
    /\ b = None
    /\ widgets = <<>>
    /\ inbox = <<>>
    /\ memory = <<>>
    /\ goodbye = FALSE
    /\ nQa = 0
    /\ lastTurn = NoTurn

\* The value of a variable no statement has assigned yet.
Unset == <<"unset">>

\* The loop's variables before its first iteration, by line 1..8.
NoFields == [k \in 1..8 |-> Unset]

\* No file listed, nothing loaded.
LoaderIdle ==
    /\ files = <<>>
    /\ fi = 1
    /\ docs = <<>>
    /\ loadErr = "none"
    /\ parsed = NoFields

\* The content handler has not been called.
LLMIdle ==
    /\ req = <<>>
    /\ resp = <<>>

\* No response of create_collection yet; nothing returned yet.
NoCollection == [id |-> <<>>, arn |-> <<>>]
NoReturn == <<>>

\* os.environ without AWS_DEFAULT_REGION.
NoRegion == [present |-> FALSE, region |-> <<>>]

\* create_opensearch_serverless_collection has not been called.
AossIdle ==
    /\ pc = "idle"
    /\ policies = {}
    /\ collection = NoCollection
    /\ svcStatus = "NONE"
    /\ status = "unset"
    /\ polls = 0
    /\ environ = NoRegion
    /\ ret = NoReturn

\* ------------------------------------------------------------ the QA chain
\* The steps of one call of self.qa, the ConversationalRetrievalChain built
\* in __init__ from llm, memory, retriever and PROMPT: with a non-empty chat
\* history the chain first asks the LLM to condense history and question
\* into a standalone question; then it queries the retriever, fills PROMPT
\* (context, chat_history, question) and calls the LLM for the answer.
QaStepsAlwaysCondense(mem) ==
    <<"llm_condense", "retriever", "prompt", "llm_answer">>

QaSteps(mem) ==
    IF mem = <<>>
    THEN <<"retriever", "prompt", "llm_answer">>
    ELSE <<"llm_condense", "retriever", "prompt", "llm_answer">>

\* What the services behind one call of self.qa may do: answer, or raise at
\* step failAt (0: no step raises).
QaOutcomes == [failAt : 0..4, answer : Answers]

\* A memory that drops a question it already holds.
QaDedup(prompt, mem, outcome) ==
    LET steps == QaSteps(mem)
        fails == outcome.failAt \in 1..Len(steps)
        seen == \E i \in 1..Len(mem) : mem[i][1] = prompt
    IN  IF fails
        THEN [raised |-> TRUE, answer |-> EmptyStr,
              trace |-> SubSeq(steps, 1, outcome.failAt), memory |-> mem]
        ELSE [raised |-> FALSE, answer |-> outcome.answer,
              trace |-> Append(steps, "append"),
              memory |-> IF seen THEN mem
                         ELSE Append(mem, <<prompt, outcome.answer>>)]

\* self.qa({"question": prompt}) on memory mem. The memory saves the turn
\* only when every step has returned (it is the chain's last step).
Qa(prompt, mem, outcome) ==
    LET steps == QaSteps(mem)
        fails == outcome.failAt \in 1..Len(steps)
    IN  IF fails
        THEN [raised |-> TRUE, answer |-> EmptyStr,
              trace |-> SubSeq(steps, 1, outcome.failAt), memory |-> mem]
        ELSE [raised |-> FALSE, answer |-> outcome.answer,
              trace |-> Append(steps, "append"),
              memory |-> Append(mem, <<prompt, outcome.answer>>)]

\* ------------------------------------------------------------------ ChatUX
\* line 607: the quit test of ChatUX.chat.
IsQuit(prompt) == prompt = S_q \/ prompt = S_quit \/ prompt = S_Q

\* lines 603-606: the text chat() reads.
Prompt == IF name = None THEN EmptyStr ELSE widgets[name].value

\* An except branch that forgets to set result.
ResultNoFallback(r) == r.answer

\* lines 614-620: the answer of the turn, "No answer" when self.qa raised.
Result(r) == IF r.raised THEN NoAnswer ELSE r.answer

\* A test that sends every text that is no quit sentinel to the chain.
EntersProcessingAlways(prompt) == TRUE

\* line 610: the text enters Processing.
EntersProcessing(prompt) == Len(prompt) > 0

\* A chat() that displays a new control on every call that does not quit.
NeedsControlAlways(n) == TRUE

\* line 627: a new control is created and displayed.
NeedsControl(n) == n = None

\* ChatUX.chat(self, _), the whole callback.
Chat(outcome) ==
    LET prompt == Prompt IN
    IF IsQuit(prompt)
    THEN \* lines 607-609: print the farewell and return
         /\ goodbye' = TRUE
         /\ UNCHANGED <<name, b, widgets, memory, nQa, lastTurn>>
    ELSE LET processing == EntersProcessing(prompt)
             r == Qa(prompt, memory, outcome)
             result == Result(r)
             \* lines 623-625
             w1 == IF processing
                   THEN [widgets EXCEPT ![name].tdisabled = TRUE,
                                        ![b].bdisabled = TRUE]
                   ELSE widgets
             name1 == IF processing THEN None ELSE name
         IN  /\ processing => nQa < MaxTurns
             /\ memory' = IF processing THEN r.memory ELSE memory
             /\ nQa' = IF processing THEN nQa + 1 ELSE nQa
             /\ lastTurn' = IF processing
                            THEN [q |-> prompt, result |-> result,
                                  raised |-> r.raised, trace |-> r.trace,
                                  ctl |-> name, histLen |-> Len(memory)]
                            ELSE lastTurn
             \* lines 627-632
             /\ IF NeedsControl(name1)
                THEN /\ widgets' = Append(w1, NewControl)
                     /\ name' = Len(w1) + 1
                     /\ b' = Len(w1) + 1
                ELSE /\ widgets' = w1
                     /\ name' = name1
                     /\ b' = b
             /\ UNCHANGED goodbye

\* ChatUX.start_chat
StartChat ==
    /\ ~started
    /\ started' = TRUE
    /\ \E o \in QaOutcomes : Chat(o)
    /\ UNCHANGED <<inbox, loaderVars, llmVars, aossVars>>

\* --------------------------------------------------------------- front end
Controls == 1..Len(widgets)

\* The user edits an enabled text box: the new value travels to the kernel.
TypeText(c, v) ==
    /\ c \in Controls
    /\ ~widgets[c].tdisabled
    /\ Len(inbox) < MaxInbox
    /\ inbox' = Append(inbox, [kind |-> "value", c |-> c, v |-> v])
    /\ UNCHANGED <<started, name, b, widgets, memory, goodbye, nQa, lastTurn,
                 loaderVars, llmVars, aossVars>>

\* The user clicks an enabled Send button.
ClickSend(c) ==
    /\ c \in Controls
    /\ ~widgets[c].bdisabled
    /\ Len(inbox) < MaxInbox
    /\ inbox' = Append(inbox, [kind |-> "click", c |-> c, v |-> EmptyStr])
    /\ UNCHANGED <<started, name, b, widgets, memory, goodbye, nQa, lastTurn,
                 loaderVars, llmVars, aossVars>>

\* The kernel applies the next value update to its Text widget. The value of
\* a widget that self.name no longer references is never read again
\* (chat() reads self.name.value only), so only the current widget's value
\* is tracked.
DeliverValue ==
    /\ inbox # <<>>
    /\ Head(inbox).kind = "value"
    /\ widgets' = IF Head(inbox).c = name
                  THEN [widgets EXCEPT ![name].value = Head(inbox).v]
                  ELSE widgets
    /\ inbox' = Tail(inbox)
    /\ UNCHANGED <<started, name, b, memory, goodbye, nQa, lastTurn,
                 loaderVars, llmVars, aossVars>>

\* The kernel delivers the next click: b.on_click(self.chat) runs chat().
DeliverClick ==
    /\ inbox # <<>>
    /\ Head(inbox).kind = "click"
    /\ \E o \in QaOutcomes : Chat(o)
    /\ inbox' = Tail(inbox)
    /\ UNCHANGED <<started, loaderVars, llmVars, aossVars>>

NextChat ==
    \/ StartChat
    \* the user types one of the texts, or clears the box
    \/ \E c \in 1..(MaxTurns + 1), v \in Texts \cup {EmptyStr} : TypeText(c, v)
    \/ \E c \in 1..(MaxTurns + 1) : ClickSend(c)
    \/ DeliverValue
    \/ DeliverClick

\* The notebook state in which the chat cell runs, as far as ChatUX reads it.
InitChatOnly == InitChat /\ LoaderIdle /\ LLMIdle /\ AossIdle

SpecChat == InitChatOnly /\ [][NextChat]_vars

\* --------------------------------------------------------- string methods
\* str.split(sep) for a one-character separator.
RECURSIVE Split(_, _)
Split(s, sep) ==
    IF \A i \in 1..Len(s) : s[i] # sep
    THEN <<s>>
    ELSE LET k == CHOOSE i \in 1..Len(s) :
                      s[i] = sep /\ \A j \in 1..(i - 1) : s[j] # sep
         IN  <<SubSeq(s, 1, k - 1)>> \o Split(SubSeq(s, k + 1, Len(s)), sep)

IsSpace(c) == c \in {" ", "\n", "\t"}

\* str.strip()
Strip(s) ==
    IF \A i \in 1..Len(s) : IsSpace(s[i])
    THEN <<>>
    ELSE LET lo == CHOOSE i \in 1..Len(s) :
                       ~IsSpace(s[i]) /\ \A j \in 1..(i - 1) : IsSpace(s[j])
             hi == CHOOSE i \in 1..Len(s) :
                       ~IsSpace(s[i]) /\ \A j \in (i + 1)..Len(s) : IsSpace(s[j])
         IN  SubSeq(s, lo, hi)

\* "".join(parts)
RECURSIVE Join(_)
Join(parts) == IF parts = <<>> THEN <<>> ELSE Head(parts) \o Join(Tail(parts))

Digits == <<"0", "1", "2", "3", "4", "5", "6", "7", "8", "9">>

IsDigit(c) == \E i \in 1..Len(Digits) : Digits[i] = c

DigitVal(c) == (CHOOSE i \in 1..Len(Digits) : Digits[i] = c) - 1

\* The number a digit string denotes.
RECURSIVE NumOf(_)
NumOf(ds) ==
    IF ds = <<>> THEN 0
    ELSE 10 * NumOf(SubSeq(ds, 1, Len(ds) - 1)) + DigitVal(ds[Len(ds)])

\* A digit string without its trailing zeros.
RECURSIVE DropTrailingZeros(_)
DropTrailingZeros(ds) ==
    IF ds # <<>> /\ ds[Len(ds)] = "0"
    THEN DropTrailingZeros(SubSeq(ds, 1, Len(ds) - 1))
    ELSE ds

S_nan == <<"n", "a", "n">>
S_zero == <<"0">>

\* An unsigned decimal literal: digits with at most one point.
IsDecimal(s) ==
    /\ \A i \in 1..Len(s) : IsDigit(s[i]) \/ s[i] = "."
    /\ \E i \in 1..Len(s) : IsDigit(s[i])
    /\ Cardinality({i \in 1..Len(s) : s[i] = "."}) <= 1

\* float(s) on unsigned decimal literals and on the spellings of nan, which
\* float() accepts in any case; every other string of the model's alphabet
\* raises ValueError. A number is m / 10^e with no trailing fraction zero.
Float(s) ==
    IF Lower(s) = S_nan
    THEN [ok |-> TRUE, nan |-> TRUE, m |-> 0, e |-> 0]
    ELSE IF ~IsDecimal(s)
    THEN [ok |-> FALSE, nan |-> FALSE, m |-> 0, e |-> 0]
    ELSE LET parts == Split(s, ".")
             ip == parts[1]
             fp == IF Len(parts) > 1 THEN DropTrailingZeros(parts[2]) ELSE <<>>
         IN  [ok |-> TRUE, nan |-> FALSE, m |-> NumOf(ip \o fp), e |-> Len(fp)]

\* 0.0
FloatZero == [ok |-> TRUE, nan |-> FALSE, m |-> 0, e |-> 0]

\* --------------------------------------------------------- document loader
\* Files listed by one glob of the data directory.
MaxFiles == 2

Line(label, value) == label \o <<":", " ">> \o value \o <<"\n">>

\* The rating values of the files of the model.
RatingTexts ==
    {S_nan, <<"7", ".", "5">>, S_zero, <<"x">>, <<>>, <<"N", "a", "N">>}

\* A file of 8 labelled lines.
GoodFile(title, rating, overview) ==
    << Line(<<"I">>, <<"1">>),
       Line(<<"T">>, title),
       Line(<<"G">>, <<"a", ",", "b">>),
       Line(<<"L">>, <<"e">>),
       Line(<<"D">>, <<"d">>),
       Line(<<"R">>, rating),
       Line(<<"C">>, <<"c">>),
       Line(<<"O">>, overview) >>

PlainFile == GoodFile(<<"t">>, <<"7", ".", "5">>, <<"o">>)

\* The contents a file of the data directory may have: well-formed files
\* with each rating value, one whose title and overview hold a ':', one whose
\* release date holds a ':', a file of 7 lines and a file whose third line
\* has no ':'.
FileSet ==
    {GoodFile(<<"t">>, r, <<"o">>) : r \in RatingTexts}
    \cup {GoodFile(<<"A", ":", " ", "B">>, <<"7", ".", "5">>, <<"o", ":", "p">>)}
    \cup {[PlainFile EXCEPT ![5] = Line(<<"D">>, <<"d", ":", "e">>)]}
    \cup {SubSeq(PlainFile, 1, 7)}
    \cup {[PlainFile EXCEPT ![3] = <<"G", " ", "a", "\n">>]}

\* lines[k - 1].split(":")[1] raises IndexError: no such line, or no ':'.
FieldFails(lines, k) == Len(lines) < k \/ Len(Split(lines[k], ":")) < 2

\* lines[k - 1].split(":")[1].strip()
Field(lines, k) == Strip(Split(lines[k], ":")[2])

\* lines 301-303: the rating text handed to float().
RatingText(lines) ==
    LET rating == Field(lines, 6)
    IN  IF rating = S_nan THEN S_zero ELSE rating

\* lines 306-315: the Document of a file.
Document(lines) ==
    [ page_content |-> Join(lines),
      movie_id |-> Field(lines, 1),
      rating |-> Float(RatingText(lines)),
      genres |-> Split(Field(lines, 3), ","),
      spoken_languages |-> Split(Field(lines, 4), ","),
      release_date |-> Field(lines, 5),
      cast |-> Split(Field(lines, 7), ",") ]

\* The exception one iteration of the loop raises on a file, or "none".
FileError(lines) ==
    IF \E k \in 1..8 : FieldFails(lines, k) THEN "IndexError"
    ELSE IF ~Float(RatingText(lines)).ok THEN "ValueError"
    ELSE "none"

\* Lines 296-305 on one file: the variables assigned, line by line, until a
\* line raises IndexError; the others keep the values they had.
AssignFields(old, lines) ==
    [k \in 1..8 |->
        IF \E j \in 1..k : FieldFails(lines, j) THEN old[k]
        ELSE IF k = 6 THEN RatingText(lines)
        ELSE Field(lines, k)]

\* Line 292 and the glob of line 293.
InitLoader ==
    /\ files \in UNION {[1..n -> FileSet] : n \in 0..MaxFiles}
    /\ fi = 1
    /\ docs = <<>>
    /\ loadErr = "none"
    /\ parsed = NoFields

\* One iteration of the for loop (lines 293-316). An exception is caught
\* nowhere: it ends the loop and the cell.
LoadFile ==
    /\ loadErr = "none"
    /\ fi <= Len(files)
    /\ parsed' = AssignFields(parsed, files[fi])
    /\ LET err == FileError(files[fi])
       IN  IF err = "none"
           THEN /\ docs' = Append(docs, Document(files[fi]))
                /\ fi' = fi + 1
                /\ UNCHANGED loadErr
           ELSE /\ loadErr' = err
                /\ UNCHANGED <<docs, fi>>
    /\ UNCHANGED <<files, chatVars, llmVars, aossVars>>

\* The chat loop not started, the content handler not called.
InitLoaderOnly == InitLoader /\ InitChat /\ LLMIdle /\ AossIdle

NextLoader == LoadFile

SpecLoader == InitLoaderOnly /\ [][NextLoader]_vars

\* ------------------------------------------------------------ JSON values
\* A JSON value: a string (t = "str", its characters in s), a literal
\* (t = "lit": a number, true, false or null, its text in s), an array
\* (t = "arr", its elements in items) or an object (t = "obj", its keys in
\* keys and their values in items, in order).
JStr(s) == [t |-> "str", s |-> s, keys |-> <<>>, items |-> <<>>]
JLit(s) == [t |-> "lit", s |-> s, keys |-> <<>>, items |-> <<>>]
JArr(items) == [t |-> "arr", s |-> <<>>, keys |-> <<>>, items |-> items]
JObj(keys, items) == [t |-> "obj", s |-> <<>>, keys |-> keys, items |-> items]
JNull == JLit(<<"n", "u", "l", "l">>)
JTrue == JLit(<<"t", "r", "u", "e">>)

K_role ==
    << "r", "o", "l", "e">>

K_content ==
    << "c", "o", "n", "t", "e", "n", "t">>

S_system ==
    << "s", "y", "s", "t", "e", "m">>

S_user ==
    << "u", "s", "e", "r">>

S_assistant_intro ==
    << "Y", "o", "u", " ", "a", "r", "e", " ", "a", " ", "m", "o", "v", "i",
      "e", " ", "a", "s", "s", "i", "s", "t", "a", "n", "t", ".">>

K_inputs ==
    << "i", "n", "p", "u", "t", "s">>

K_parameters ==
    << "p", "a", "r", "a", "m", "e", "t", "e", "r", "s">>

K_do_sample ==
    << "d", "o", "_", "s", "a", "m", "p", "l", "e">>

K_top_p ==
    << "t", "o", "p", "_", "p">>

K_temperature ==
    << "t", "e", "m", "p", "e", "r", "a", "t", "u", "r", "e">>

K_max_new_tokens ==
    << "m", "a", "x", "_", "n", "e", "w", "_", "t", "o", "k", "e", "n",
      "s">>

K_stop ==
    << "s", "t", "o", "p">>

K_repetition_penalty ==
    << "r", "e", "p", "e", "t", "i", "t", "i", "o", "n", "_", "p", "e", "n",
      "a", "l", "t", "y">>

S_endoftext ==
    << "<", "|", "e", "n", "d", "o", "f", "t", "e", "x", "t", "|", ">">>

S_eos ==
    << "<", "/", "s", ">">>

K_generated_text ==
    << "g", "e", "n", "e", "r", "a", "t", "e", "d", "_", "t", "e", "x",
      "t">>

K_not_generated_text ==
    << "n", "o", "t", "_", "g", "e", "n", "e", "r", "a", "t", "e", "d", "_",
      "t", "e", "x", "t">>

\* json.dumps of one character inside a string.
EscapeChar(c) ==
    CASE c = "\"" -> <<"\\", "\"">>
      [] c = "\\" -> <<"\\", "\\">>
      [] c = "\n" -> <<"\\", "n">>
      [] c = "\t" -> <<"\\", "t">>
      [] OTHER -> <<c>>

RECURSIVE Escape(_)
Escape(s) == IF s = <<>> THEN <<>> ELSE EscapeChar(Head(s)) \o Escape(Tail(s))

\* json.dumps of a string.
DumpsStr(s) == <<"\"">> \o Escape(s) \o <<"\"">>

\* sep.join(parts)
RECURSIVE JoinWith(_, _)
JoinWith(parts, sep) ==
    IF parts = <<>> THEN <<>>
    ELSE IF Len(parts) = 1 THEN parts[1]
    ELSE parts[1] \o sep \o JoinWith(Tail(parts), sep)

\* json.dumps(v) with its default separators.
RECURSIVE Dumps(_)
Dumps(v) ==
    CASE v.t = "str" -> DumpsStr(v.s)
      [] v.t = "lit" -> v.s
      [] v.t = "arr" ->
            <<"[">> \o JoinWith([i \in 1..Len(v.items) |-> Dumps(v.items[i])],
                                <<",", " ">>) \o <<"]">>
      [] v.t = "obj" ->
            <<"{">> \o JoinWith([i \in 1..Len(v.items) |->
                                    DumpsStr(v.keys[i]) \o <<":", " ">>
                                        \o Dumps(v.items[i])],
                                <<",", " ">>) \o <<"}">>

\* ---------------------------------------------------- SMLLMContentHandler
\* Longest prompt handed to transform_input.
MaxPromptLen == 2

\* The characters of a prompt: a letter, and two that json.dumps escapes.
PromptChars == {"a", "\"", "\n"}

Prompts == UNION {[1..n -> PromptChars] : n \in 0..MaxPromptLen}

\* model_params: the model_kwargs of the SagemakerEndpoint.
ModelParams ==
    JObj(<<K_do_sample, K_top_p, K_temperature, K_max_new_tokens, K_stop,
           K_repetition_penalty>>,
         <<JTrue, JLit(<<"0", ".", "9">>), JLit(<<"0", ".", "1">>),
           JLit(<<"1", "0", "0", "0">>),
           JArr(<<JStr(S_endoftext), JStr(S_eos)>>),
           JLit(<<"1", ".", "1">>)>>)

\* Lines 439-440: the instructions, one dialog of a system and a user message.
Instructions(prompt) ==
    JArr(<<JArr(<<JObj(<<K_role, K_content>>,
                       <<JStr(S_system), JStr(S_assistant_intro)>>),
                  JObj(<<K_role, K_content>>,
                       <<JStr(S_user), JStr(prompt)>>)>>)>>)

\* A transform_input that hands the instructions on without json.dumps.
TransformInputNoDumps(prompt, model_kwargs) ==
    LET body == JObj(<<K_inputs, K_parameters>>,
                     <<Instructions(prompt),
                       JObj(model_kwargs.keys, model_kwargs.items)>>)
    IN  [prompt |-> prompt, body |-> body, bytes |-> Dumps(body)]

\* SMLLMContentHandler.transform_input: body is the object input_str
\* encodes, bytes the text returned.
TransformInput(prompt, model_kwargs) ==
    LET input_data == Dumps(Instructions(prompt))
        body == JObj(<<K_inputs, K_parameters>>,
                     <<JStr(input_data),
                       JObj(model_kwargs.keys, model_kwargs.items)>>)
    IN  [prompt |-> prompt, body |-> body, bytes |-> Dumps(body)]

\* The response bodies of the endpoint: valid is FALSE for bytes json.loads
\* rejects, json is the value json.loads returns otherwise.
Body(v) == [valid |-> TRUE, json |-> v]

ResponseBodies ==
    { Body(JArr(<<JObj(<<K_generated_text>>, <<JStr(<<"h", "i">>)>>)>>)),
      Body(JArr(<<JObj(<<K_generated_text>>, <<JStr(<<>>)>>)>>)),
      Body(JArr(<<JObj(<<K_generated_text>>, <<JLit(<<"5">>)>>)>>)),
      Body(JArr(<<JObj(<<K_not_generated_text, K_generated_text>>,
                       <<JStr(<<"x">>), JStr(<<"h", "i">>)>>)>>)),
      Body(JArr(<<JObj(<<K_generated_text>>, <<JStr(<<"a">>)>>),
                  JObj(<<K_generated_text>>, <<JStr(<<"b">>)>>)>>)),
      Body(JArr(<<JObj(<<K_not_generated_text>>, <<JStr(<<"x">>)>>),
                  JObj(<<K_generated_text>>, <<JStr(<<"b">>)>>)>>)),
      Body(JObj(<<K_not_generated_text>>, <<JStr(<<"x">>)>>)),
      Body(JObj(<<K_generated_text>>, <<JStr(<<"h", "i">>)>>)),
      Body(JArr(<<>>)),
      Body(JArr(<<JObj(<<>>, <<>>)>>)),
      Body(JArr(<<JObj(<<K_not_generated_text>>, <<JStr(<<"x">>)>>)>>)),
      Body(JArr(<<JArr(<<>>)>>)),
      Body(JArr(<<JStr(<<"h", "i">>)>>)),
      Body(JArr(<<JNull>>)),
      Body(JStr(<<"h", "i">>)),
      Body(JStr(<<>>)),
      Body(JNull),
      [valid |-> FALSE, json |-> JNull] }

Returned(v) == [raised |-> "none", value |-> v]
Raised(kind) == [raised |-> kind, value |-> JNull]

\* v[0]
Index0(v) ==
    CASE v.t = "arr" ->
            IF v.items = <<>> THEN Raised("IndexError") ELSE Returned(v.items[1])
      [] v.t = "str" ->
            IF v.s = <<>> THEN Raised("IndexError") ELSE Returned(JStr(<<v.s[1]>>))
      [] v.t = "obj" -> Raised("KeyError")
      [] v.t = "lit" -> Raised("TypeError")

\* v[key] for a string key
GetKey(v, key) ==
    IF v.t # "obj" THEN Raised("TypeError")
    ELSE IF \A i \in 1..Len(v.keys) : v.keys[i] # key THEN Raised("KeyError")
    ELSE Returned(v.items[CHOOSE i \in 1..Len(v.keys) : v.keys[i] = key])

\* A transform_output that reads the field with a default.
TransformOutputDefault(output) ==
    IF ~output.valid THEN Raised("JSONDecodeError")
    ELSE LET first == Index0(output.json)
         IN  IF first.raised # "none" THEN first
             ELSE IF GetKey(first.value, K_generated_text).raised = "KeyError"
             THEN Returned(JStr(<<>>))
             ELSE GetKey(first.value, K_generated_text)

\* SMLLMContentHandler.transform_output
TransformOutput(output) ==
    IF ~output.valid THEN Raised("JSONDecodeError")
    ELSE LET first == Index0(output.json)
         IN  IF first.raised # "none" THEN first
             ELSE GetKey(first.value, K_generated_text)

\* llm calls content_handler.transform_input(prompt, model_kwargs).
CallTransformInput(prompt) ==
    /\ req' = <<TransformInput(prompt, ModelParams)>>
    /\ UNCHANGED <<resp, chatVars, loaderVars, aossVars>>

\* llm calls content_handler.transform_output(response body).
CallTransformOutput(output) ==
    /\ resp' = <<[body |-> output] @@ TransformOutput(output)>>
    /\ UNCHANGED <<req, chatVars, loaderVars, aossVars>>

InitLLMOnly == LLMIdle /\ InitChat /\ LoaderIdle /\ AossIdle

NextLLM ==
    \/ \E prompt \in Prompts : CallTransformInput(prompt)
    \/ \E output \in ResponseBodies : CallTransformOutput(output)

SpecLLM == InitLLMOnly /\ [][NextLLM]_vars

\* ---------------------------------- create_opensearch_serverless_collection
\* Most list_collections calls of one run of the function.
MaxPolls == 3

S_region == <<"u", "s", "-", "w", "e", "s", "t", "-", "2">>
S_aossSuffix == <<".", "a", "o", "s", "s", ".", "a", "m", "a", "z", "o", "n",
                  "a", "w", "s", ".", "c", "o", "m">>
S_arnPrefix == <<"a", "r", "n", ":">>

\* os.environ: AWS_DEFAULT_REGION is set, or it is not.
Environs == {NoRegion, [present |-> TRUE, region |-> S_region]}

\* The ids the service may give the new collection.
CollectionIds == {<<"c", "1">>, <<"c", "2">>}

\* The statuses at which the polling loop stops.
Settled == {"ACTIVE", "FAILED"}

\* line 221: if status in ('ACTIVE', 'FAILED'): break
StopsPolling(st) == st \in Settled

\* line 257: the host name built from the collection id and the region.
Host(id, region) == id \o <<".">> \o region \o S_aossSuffix

\* The cell calls the function (line 268).
InitAoss ==
    /\ pc = "encryption"
    /\ policies = {}
    /\ collection = NoCollection
    /\ svcStatus = "NONE"
    /\ status = "unset"
    /\ polls = 0
    /\ environ \in Environs
    /\ ret = NoReturn

\* lines 191-204: get_caller_identity and the encryption policy; the call
\* returns, or raises (a name already taken, a denied or failed request).
CreateEncryptionPolicy(ok) ==
    /\ pc = "encryption"
    /\ IF ok
       THEN /\ policies' = policies \cup {"encryption"}
            /\ pc' = "network"
       ELSE /\ pc' = "raised"
            /\ UNCHANGED policies
    /\ UNCHANGED <<collection, svcStatus, status, polls, environ, ret,
                 chatVars, loaderVars, llmVars>>

\* lines 206-215: the network policy.
CreateNetworkPolicy(ok) ==
    /\ pc = "network"
    /\ IF ok
       THEN /\ policies' = policies \cup {"network"}
            /\ pc' = "collection"
       ELSE /\ pc' = "raised"
            /\ UNCHANGED policies
    /\ UNCHANGED <<collection, svcStatus, status, polls, environ, ret,
                 chatVars, loaderVars, llmVars>>

\* line 217: create_collection; the service starts creating the collection.
CreateCollection(ok, id) ==
    /\ pc = "collection"
    /\ IF ok
       THEN /\ collection' = [id |-> id, arn |-> S_arnPrefix \o id]
            /\ svcStatus' = "CREATING"
            /\ pc' = "poll"
       ELSE /\ pc' = "raised"
            /\ UNCHANGED <<collection, svcStatus>>
    /\ UNCHANGED <<policies, status, polls, environ, ret,
                 chatVars, loaderVars, llmVars>>

\* The service finishes creating the collection, or fails to.
ServiceSettles(st) ==
    /\ svcStatus = "CREATING"
    /\ st \in Settled
    /\ svcStatus' = st
    /\ UNCHANGED <<pc, policies, collection, status, polls, environ, ret,
                 chatVars, loaderVars, llmVars>>

\* lines 219-221: one poll of the loop, list_collections and the test.
ListCollections(ok) ==
    /\ pc = "poll"
    /\ polls < MaxPolls
    /\ polls' = polls + 1
    /\ IF ok
       THEN /\ status' = svcStatus
            /\ pc' = IF StopsPolling(svcStatus) THEN "access" ELSE "sleep"
       ELSE /\ pc' = "raised"
            /\ UNCHANGED status
    /\ UNCHANGED <<policies, collection, svcStatus, environ, ret,
                 chatVars, loaderVars, llmVars>>

\* line 222: time.sleep(10), then the next turn of the loop.
Sleep ==
    /\ pc = "sleep"
    /\ pc' = "poll"
    /\ UNCHANGED <<policies, collection, svcStatus, status, polls, environ,
                 ret, chatVars, loaderVars, llmVars>>

\* lines 224-254: the data access policy.
CreateAccessPolicy(ok) ==
    /\ pc = "access"
    /\ IF ok
       THEN /\ policies' = policies \cup {"data"}
            /\ pc' = "return"
       ELSE /\ pc' = "raised"
            /\ UNCHANGED policies
    /\ UNCHANGED <<collection, svcStatus, status, polls, environ, ret,
                 chatVars, loaderVars, llmVars>>

\* lines 255-258: the host is built and the triple returned; without
\* AWS_DEFAULT_REGION, os.environ.get gives None and str + None raises.
ReturnHost ==
    /\ pc = "return"
    /\ IF environ.present
       THEN /\ ret' = <<Host(collection.id, environ.region), collection.id,
                        collection.arn>>
            /\ pc' = "returned"
       ELSE /\ pc' = "raised"
            /\ UNCHANGED ret
    /\ UNCHANGED <<policies, collection, svcStatus, status, polls, environ,
                 chatVars, loaderVars, llmVars>>

InitAossOnly == InitAoss /\ InitChat /\ LoaderIdle /\ LLMIdle

NextAoss ==
    \/ \E ok \in BOOLEAN : CreateEncryptionPolicy(ok)
    \/ \E ok \in BOOLEAN : CreateNetworkPolicy(ok)
    \/ \E ok \in BOOLEAN, id \in CollectionIds : CreateCollection(ok, id)
    \/ \E st \in Settled : ServiceSettles(st)
    \/ \E ok \in BOOLEAN : ListCollections(ok)
    \/ Sleep
    \/ \E ok \in BOOLEAN : CreateAccessPolicy(ok)
    \/ ReturnHost

SpecAoss == InitAossOnly /\ [][NextAoss]_vars

\* ------------------------------------------------------- chat loop claims
\* A step in which the kernel runs chat() for a click.
ChatRuns == inbox # <<>> /\ Head(inbox).kind = "click" /\ inbox' = Tail(inbox)

\* A step in which a turn entered Processing (lastTurn.ctl is new each turn).
TurnProcessed == lastTurn' # lastTurn

\* The quit sentinel compared case-insensitively.
IsQuitCI(text) == Lower(text) \in {S_q, S_quit}

\* C1: once chat() has handled a quit sentinel, no later user action leads
\* to Processing: self.qa is never invoked again and Conversation Memory
\* never changes again.
C1_NoProcessingAfterQuit ==
    [][goodbye => (nQa' = nQa /\ memory' = memory)]_vars

\* C2: after chat() has handled a quit sentinel, the text box and the Send
\* button that submitted it are disabled and no enabled input control
\* remains.
C2_QuitDisablesControls ==
    goodbye => \A c \in Controls : widgets[c].tdisabled /\ widgets[c].bdisabled

\* C3: chat() enters Processing (invokes self.qa) if and only if the
\* submitted text is non-empty and is not "q" or "quit" compared
\* case-insensitively.
C3_ProcessingIffNotQuitCI ==
    [][ChatRuns =>
         ((nQa' = nQa + 1) <=> (Len(Prompt) > 0 /\ ~IsQuitCI(Prompt)))]_vars

\* C4: when self.qa raises during a turn, chat() shows the literal answer
\* "No answer", has invoked self.qa once for the turn (each step of the chain
\* at most once, no retry), leaves Conversation Memory as it was, disables the
\* used control and returns to AwaitingInput with a fresh, empty, enabled
\* control referenced by self.name and self.b.
C4_ExceptionYieldsNoAnswer ==
    [][(TurnProcessed /\ lastTurn'.raised) =>
         /\ lastTurn'.q = Prompt
         /\ lastTurn'.result = NoAnswer
         /\ nQa' = nQa + 1
         /\ \E k \in 1..Len(QaSteps(memory)) :
                lastTurn'.trace = SubSeq(QaSteps(memory), 1, k)
         /\ memory' = memory
         /\ widgets'[name].tdisabled /\ widgets'[b].bdisabled
         /\ name' = Len(widgets) + 1 /\ b' = name'
         /\ Len(widgets') = Len(widgets) + 1
         /\ widgets'[name'] = NewControl]_vars

\* Two turns were processed, both raised, and a fresh control awaits input.
C4_Witness ==
    /\ nQa = 2
    /\ memory = <<>>
    /\ lastTurn.raised /\ lastTurn.result = NoAnswer
    /\ name = 3 /\ widgets[3] = NewControl
    /\ widgets[1].tdisabled /\ widgets[2].tdisabled

\* C5 as claimed: after N chat turns Conversation Memory holds exactly N
\* (question, answer) pairs.
C5_NPairsAfterNTurns == Len(memory) = nQa

\* C5, amended: Conversation Memory changes only by appending, at its end,
\* the (question, answer) pair of a turn whose self.qa call returned; a turn
\* that raised, an empty submission and a quit leave it unchanged; no pair is
\* reordered, dropped or deduplicated.
C5_MemoryAppendOnly ==
    [][IF TurnProcessed /\ ~lastTurn'.raised
       THEN memory' = Append(memory, <<Prompt, lastTurn'.result>>)
       ELSE memory' = memory]_vars

\* The same question was answered twice and is held twice.
C5_Witness ==
    /\ nQa = 2
    /\ Len(memory) = 2
    /\ memory[1][1] = S_hi /\ memory[2][1] = S_hi
    /\ memory[2][2] = lastTurn.result

\* The service a step of the chain calls.
Kind(e) == IF e \in {"llm_condense", "llm_answer"} THEN "llm" ELSE e

chatEffects == <<name, b, widgets, memory, goodbye, nQa, lastTurn>>

\* A step in which chat() runs for a click while the current text is empty.
EmptySubmit == ChatRuns /\ name # None /\ Prompt = EmptyStr

\* C12: clicking Send with an empty text box is a no-op: self.qa is not
\* invoked (nQa and the last turn are unchanged), Conversation Memory is
\* unchanged, nothing is printed, the current controls stay the same objects
\* with the same value and enabled flags, and no control is created.
C12_EmptySubmitIsNoOp ==
    [][EmptySubmit =>
           /\ UNCHANGED chatEffects
           /\ ~widgets'[name'].tdisabled
           /\ ~widgets'[b'].bdisabled
           /\ Len(widgets') = Len(widgets)]_vars

\* After a processed turn, a click on the fresh, still empty control is the
\* next message the kernel handles.
C12_Witness ==
    /\ nQa = 1
    /\ inbox # <<>>
    /\ Head(inbox) = [kind |-> "click", c |-> name, v |-> EmptyStr]
    /\ widgets[name].value = EmptyStr
    /\ ~widgets[name].tdisabled

\* The controls whose text box, and whose button, are enabled.
EnabledTexts == {c \in Controls : ~widgets[c].tdisabled}
EnabledButtons == {c \in Controls : ~widgets[c].bdisabled}

\* C13: after start_chat, between callbacks, exactly one input control is
\* enabled, and it is the one self.name and self.b reference; every control
\* used for a processed turn is disabled (one per turn, so the controls
\* number one more than the turns); before start_chat there is no control,
\* and start_chat creates the first one without invoking self.qa.
C13_OneEnabledControl ==
    /\ ~started => /\ widgets = <<>>
                   /\ name = None
                   /\ nQa = 0
    /\ started => /\ name \in Controls
                  /\ b = name
                  /\ EnabledTexts = {name}
                  /\ EnabledButtons = {b}
                  /\ Len(widgets) = nQa + 1
                  /\ name = Len(widgets)
                  /\ nQa > 0 => /\ lastTurn.ctl = name - 1
                                /\ widgets[lastTurn.ctl].tdisabled
                                /\ widgets[lastTurn.ctl].bdisabled
                  /\ nQa = 0 => memory = <<>>

\* Two turns were processed, the second one failing: the third control is
\* the enabled one.
C13_Witness ==
    /\ started
    /\ nQa = 2
    /\ lastTurn.raised
    /\ Len(widgets) = 3
    /\ name = 3

\* A step in which chat() runs for a click of a button that is disabled by
\* now: a click queued while an earlier click of that control was processed.
StaleClick == ChatRuns /\ widgets[Head(inbox).c].bdisabled

\* C14: each question is processed at most once. A turn is processed only
\* for a click of the current, enabled control, and processing disables
\* that control; a further delivery of a click of that control reads the
\* fresh empty control and changes nothing.
C14_ProcessedAtMostOnce ==
    [][ChatRuns =>
           /\ TurnProcessed =>
                  /\ Head(inbox).c = name
                  /\ ~widgets[name].bdisabled
                  /\ widgets'[name].bdisabled
                  /\ widgets'[name].tdisabled
                  /\ nQa' = nQa + 1
                  /\ name' # name
           /\ StaleClick =>
                  /\ Prompt = EmptyStr
                  /\ UNCHANGED chatEffects]_vars

\* The first click of control 1 was processed; a second click of control 1
\* is the next message the kernel handles.
C14_Witness ==
    /\ nQa = 1
    /\ lastTurn.ctl = 1
    /\ inbox # <<>>
    /\ Head(inbox) = [kind |-> "click", c |-> 1, v |-> EmptyStr]
    /\ widgets[1].bdisabled
    /\ Len(memory) = 1

\* --------------------------------------------------------- loader claims
\* The loop has taken file i: it loaded it, or it raised on it.
Consumed(i) == i < fi \/ (i = fi /\ loadErr # "none")

\* A file with fewer than 8 lines, or with one of its 8 lines lacking ':'.
Malformed(lines) == \E k \in 1..8 : FieldFails(lines, k)

\* The loop has ended: every file loaded, or an exception raised.
LoaderDone == loadErr # "none" \/ fi > Len(files)

\* C7: for every valid 8-line file the load does not fail and produces a
\* Record whose rating is 0.0 exactly when the rating value is the literal
\* "nan" or is non-numeric or absent (or is itself a numeric zero), and whose
\* rating is the number written for a numeric rating value.
C7_RatingDefaultsToZero ==
    \A i \in 1..Len(files) :
        (Consumed(i) /\ ~Malformed(files[i])) =>
            LET r == Field(files[i], 6)
            IN  /\ i < fi
                /\ docs[i].rating = FloatZero <=>
                       (r = S_nan \/ ~IsDecimal(r) \/ Float(r) = FloatZero)
                /\ IsDecimal(r) => docs[i].rating = Float(r)

\* C8: a malformed file fails alone: when the load has ended, no Record
\* exists for a malformed file and every well-formed file of the directory,
\* listed before or after it, has its Record in docs. (Stated for directories
\* whose well-formed files all have a rating float() accepts, so that only
\* malformed files fail.)
C8_FailureConfinedToFile ==
    (LoaderDone /\ \A i \in 1..Len(files) : FileError(files[i]) # "ValueError")
        => /\ \A i \in 1..Len(files) :
                  ~Malformed(files[i]) =>
                      \E j \in 1..Len(docs) : docs[j] = Document(files[i])
           /\ Len(docs) =
                  Cardinality({i \in 1..Len(files) : ~Malformed(files[i])})

\* The whole value of a "Label: value" line: what follows its first ':',
\* without the surrounding whitespace.
ValuePart(line) ==
    LET k == CHOOSE i \in 1..Len(line) :
                 line[i] = ":" /\ \A j \in 1..(i - 1) : line[j] # ":"
    IN  Strip(SubSeq(line, k + 1, Len(line)))

\* C11: every well-formed file yields exactly one Record; identifier, title,
\* genres, languages, release date, rating, cast and overview are taken from
\* lines 1..8 in this order and each equals the whole trimmed value part of
\* its line (all that follows the first ':'), also when the value holds a
\* ':'; the raw text is the concatenation of the file's lines. (Stated on the
\* files the loop has loaded; the count, for directories on which no
\* iteration raises.)
C11_WholeValueFields ==
    /\ \A i \in 1..Len(docs) :
           LET v == [k \in 1..8 |-> ValuePart(files[i][k])]
           IN  /\ docs[i].page_content = Join(files[i])
               /\ docs[i].movie_id = v[1]
               /\ docs[i].genres = Split(v[3], ",")
               /\ docs[i].spoken_languages = Split(v[4], ",")
               /\ docs[i].release_date = v[5]
               /\ docs[i].rating = Float(IF v[6] = S_nan THEN S_zero ELSE v[6])
               /\ docs[i].cast = Split(v[7], ",")
    /\ (loadErr = "none" /\ fi > 1) =>
           /\ parsed[2] = ValuePart(files[fi - 1][2])
           /\ parsed[8] = ValuePart(files[fi - 1][8])
    /\ (LoaderDone /\ \A i \in 1..Len(files) : FileError(files[i]) = "none")
           => Len(docs) = Len(files)

\* ------------------------------------------------ content handler claims
\* s holds sub as a run of consecutive characters.
Contains(s, sub) ==
    \E i \in 0..(Len(s) - Len(sub)) : SubSeq(s, i + 1, i + Len(sub)) = sub

KeySet(obj) == {obj.keys[i] : i \in 1..Len(obj.keys)}

\* The request body is an object of exactly the keys "inputs" and
\* "parameters" whose "inputs" is a string holding the (JSON-escaped) prompt
\* and whose "parameters" is an object of exactly the keys paramKeys.
Envelope(r, paramKeys) ==
    /\ r.body.t = "obj"
    /\ Len(r.body.keys) = 2
    /\ KeySet(r.body) = {K_inputs, K_parameters}
    /\ LET inputs == GetKey(r.body, K_inputs).value
           parameters == GetKey(r.body, K_parameters).value
       IN  /\ inputs.t = "str"
           /\ Contains(inputs.s, DumpsStr(r.prompt))
           /\ parameters.t = "obj"
           /\ Len(parameters.keys) = Cardinality(paramKeys)
           /\ KeySet(parameters) = paramKeys

\* C9 as claimed: the body built by transform_input with model_params has
\* exactly the keys "inputs" and "parameters", "inputs" a string holding the
\* prompt and "parameters" exactly the keys temperature, top_p,
\* max_new_tokens, stop and repetition_penalty.
C9_EnvelopeFiveParameters ==
    \A i \in 1..Len(req) :
        Envelope(req[i], {K_temperature, K_top_p, K_max_new_tokens, K_stop,
                          K_repetition_penalty})

\* C9, amended: as claimed, but "parameters" has exactly the six keys of
\* model_params: do_sample, top_p, temperature, max_new_tokens, stop and
\* repetition_penalty.
C9_EnvelopeModelParams ==
    \A i \in 1..Len(req) :
        Envelope(req[i], {K_do_sample, K_temperature, K_top_p,
                          K_max_new_tokens, K_stop, K_repetition_penalty})

\* A body was built for a prompt whose characters json.dumps escapes.
C9_Witness ==
    /\ Len(req) = 1
    /\ req[1].prompt = <<"\"", "\n">>
    /\ GetKey(req[1].body, K_inputs).value.t = "str"

\* The response holds the expected field: it is an array whose first element
\* is an object with the key "generated_text".
HasGeneratedText(output) ==
    /\ output.valid
    /\ output.json.t = "arr"
    /\ output.json.items # <<>>
    /\ output.json.items[1].t = "obj"
    /\ K_generated_text \in KeySet(output.json.items[1])

\* C10: on a response body that lacks the expected generated-text field
\* transform_output raises to its caller (KeyError, IndexError, TypeError or
\* a JSON decoding error: the InferenceError of the design) and returns
\* nothing; on a body that holds it, it returns exactly the first element's
\* "generated_text".
C10_MissingFieldRaises ==
    \A i \in 1..Len(resp) :
        IF HasGeneratedText(resp[i].body)
        THEN /\ resp[i].raised = "none"
             /\ LET first == resp[i].body.json.items[1]
                IN  \E k \in 1..Len(first.keys) :
                        /\ first.keys[k] = K_generated_text
                        /\ resp[i].value = first.items[k]
        ELSE /\ resp[i].raised \in
                    {"KeyError", "IndexError", "TypeError", "JSONDecodeError"}
             /\ resp[i].value = JNull

\* transform_output was called on the body {"not_generated_text": "x"}.
C10_Witness ==
    /\ Len(resp) = 1
    /\ resp[1].body = Body(JObj(<<K_not_generated_text>>, <<JStr(<<"x">>)>>))
    /\ resp[1].raised = "KeyError"

\* ---------------------------------------------- collection creation claims
\* C15: the data access policy is created, and (host, collection_id,
\* collection_arn) returned, only after a poll returned ACTIVE or FAILED;
\* while a poll returns anything else the function goes on polling; and the
\* function returns a host only for a collection whose observed status was
\* ACTIVE, never for a FAILED one.
C15_HostOnlyWhenActive ==
    /\ "data" \in policies => /\ polls >= 1
                              /\ status \in Settled
    /\ pc = "sleep" => status \notin Settled
    /\ ret # NoReturn => /\ pc = "returned"
                         /\ "data" \in policies
                         /\ ret = <<Host(collection.id, S_region),
                                    collection.id, collection.arn>>
    /\ pc = "returned" => /\ ret # NoReturn
                          /\ status = "ACTIVE"

====
